---- MODULE Spec2Model ----
(***************************************************************************)
(* Model of the Spotlightr -> Cloudflare Stream migration tool.           *)
(*                                                                         *)
(* migrate.js: one process run reads the CSV manifest, filters the        *)
(* migratable videos, loads migration-results.json, and uploads the       *)
(* videos one at a time, rewriting migration-results.json after each      *)
(* upload.  Successive runs share the results file only.                  *)
(*                                                                         *)
(* upload-captions.js: one process run loads the successful entries of    *)
(* migration-results.json, lists the .srt files of ./caption, matches     *)
(* them by normalized name and uploads the matched captions one at a      *)
(* time, writing caption-upload.log.                                       *)
(*                                                                         *)
(* A name (a video name, a file name) is a sequence of tokens; the text   *)
(* it stands for is the tokens one after the other.                        *)
(***************************************************************************)
EXTENDS Naturals, Sequences, FiniteSets, TLC

(***************************************************************************)
(* Bounds of the model.                                                    *)
(***************************************************************************)
\* longest CSV manifest (rows)
MaxManifest == 2
\* number of process runs of migrate.js in one behaviour
MaxRuns == 2

(***************************************************************************)
(* Values.                                                                 *)
(***************************************************************************)
\* JavaScript undefined / a CSV column that the row does not have
Absent == "<undefined>"
\* JavaScript null
Null == "<null>"
\* the literal sentinel of the export for a removed original file
DELETED == "DELETED"

\* migration-results.json does not exist
NoFile == [ exists |-> FALSE, parses |-> FALSE, entries |-> << >> ]
\* migration-results.json holds text that JSON.parse rejects (a truncated
\* or partly written file)
Torn == [ exists |-> TRUE, parses |-> FALSE, entries |-> << >> ]
\* migration-results.json holds the JSON array of these entries
Json(es) == [ exists |-> TRUE, parses |-> TRUE, entries |-> es ]

\* row[col] || ""
OrEmpty(v) == IF v = Absent \/ v = "" THEN "" ELSE v

\* JavaScript truthiness of a string-or-null value
Truthy(v) == v # Absent /\ v # Null /\ v # ""

(***************************************************************************)
(* The CSV rows the manifests are drawn from (columns id, video,          *)
(* "original file URL", project, URL).                                     *)
(***************************************************************************)
Rows ==
  { [id |-> "1", video |-> "A", url |-> "http://x/a.mp4", project |-> "10", hls |-> Absent],
    [id |-> "2", video |-> "B", url |-> DELETED,          project |-> "10", hls |-> Absent],
    [id |-> "2", video |-> "B", url |-> "http://x/b.mp4", project |-> "20", hls |-> Absent],
    [id |-> "3", video |-> "C", url |-> "",               project |-> "10", hls |-> Absent] }

Manifests == UNION { [1..n -> Rows] : n \in 1..MaxManifest }

\* values of --project=ID (Null: the flag is not given)
ProjectFlags == { Null, "10" }

(***************************************************************************)
(* State.                                                                  *)
(***************************************************************************)
VARIABLES
  manifest,        \* the parsed CSV: sequence of rows (fixed for a behaviour)
  disk,            \* migration-results.json: NoFile, Torn, or Json(entries)
  pc,              \* position of the process: idle (never run), loop, inflight, sleep,
                   \* done (main returned), crashed (terminated from outside),
                   \* fatal (main rejected: process.exit(1))
  runs,            \* number of process runs started so far
  DRY_RUN,         \* --dry-run of the current run
  FILTER_PROJECT,  \* --project= of the current run (Null when not given)
  videos,          \* main: videos
  previousResults, \* main: previousResults
  alreadyMigrated, \* main: alreadyMigrated (a Set of ids)
  results,         \* main: results
  i,               \* main: loop index i (the current video is videos[i + 1])
  successCount, skipCount, failCount,
  summary,         \* the "Migration Summary" the run printed (printed = FALSE: none yet)
  inFlight,        \* number of uploadToCloudflare calls awaiting their response
  sleeps,          \* number of rate-limit sleeps taken in the current run
  \* history variables (not state of the program)
  submitted,       \* videos passed to uploadToCloudflare in the current run, in order
  disk0,           \* content of migration-results.json when the current run started
  durable,         \* entries of the last write of the file that ran to completion
  retried          \* <<id, run>>: a Failure-only id whose retry succeeded and was saved in that run

\* normalize of upload-captions.js, applied to one name and to its result
VARIABLES
  nPc,             \* input, once (normalize applied), twice (applied to the result)
  nName,           \* the name given
  nKey,            \* normalize(nName)
  nKey2            \* normalize(nKey)

normalizerVars == << nPc, nName, nKey, nKey2 >>

\* one process run of upload-captions.js
VARIABLES
  capPc,            \* idle, loop, inflight (awaiting fetch), sleep, done, fatal (exit 1)
  capDryRun,        \* DRY_RUN of upload-captions.js
  captionDir,       \* the directory ./caption: missing, or its listing
  logFile,          \* caption-upload.log: missing, or its lines
  migrationResults, \* main's local: the successful entries loaded
  srtFiles,         \* main's local: the .srt files of the listing
  matched,          \* main's local
  unmatched,        \* main's local
  ci,               \* loop index of the caption loop (the code's i), from 0
  capSuccessCount,  \* successCount of upload-captions.js
  capFailCount,     \* failCount of upload-captions.js
  capSleeps,        \* history: number of completed delays
  capCalls,         \* history: the calls of uploadCaption, in order
  logFile0          \* history: caption-upload.log before the run

captionVars == << capPc, capDryRun, captionDir, logFile, migrationResults,
                  srtFiles, matched, unmatched, ci, capSuccessCount,
                  capFailCount, capSleeps, capCalls, logFile0 >>

\* two processes of migrate.js at once, in the same directory
VARIABLES
  proc,             \* per process: pc (idle, loop, inflight, saving, sleep,
                    \* done), run number and main's locals
  starts,           \* number of process starts so far
  uploads,          \* number of uploads sent so far, by both processes
  diskLen,          \* length of the text the results file holds
  lost,             \* history: ids whose Success entry on disk a save of the
                    \* other process dropped
  again             \* history: ids of lost uploaded again by a later run

concurrentVars == << proc, starts, uploads, diskLen, lost, again >>

\* the variables of the other programs and specifications: the steps of
\* migrate.js leave them alone
otherVars == << normalizerVars, captionVars, concurrentVars >>

vars == << manifest, disk, pc, runs, DRY_RUN, FILTER_PROJECT, videos,
           previousResults, alreadyMigrated, results, i, successCount,
           skipCount, failCount, summary, inFlight, sleeps, submitted, disk0,
           durable, retried, otherVars >>

(***************************************************************************)
(* Helpers of migrate.js.                                                  *)
(***************************************************************************)
\* loadPreviousResults: [] when the file is missing or JSON.parse throws.
\* JSON.stringify followed by JSON.parse gives back the same entries: every
\* field of an entry is a string or a boolean and none is undefined.
loadPreviousResults(file) ==
  IF ~file.exists THEN << >>
  ELSE IF ~file.parses THEN << >>
  ELSE file.entries

\* mutant: the file is written before the new entry is pushed
saveMigrationResults_BeforePush(res) ==
  Json(SubSeq(res, 1, Len(res) - 1))

\* saveMigrationResults: the content writeFileSync leaves when it completes
saveMigrationResults(res) == Json(res)

\* the object extractMigratableVideos pushes for a row
ToVideo(row) ==
  [ name         |-> OrEmpty(row.video),
    url          |-> OrEmpty(row.url),
    projectId    |-> OrEmpty(row.project),
    spotlightrId |-> OrEmpty(row.id),
    hlsUrl       |-> OrEmpty(row.hls) ]

\* mutant: the first test compares with "DELETED" only
Migratable_EmptyUrlKept(row, filter) ==
  LET originalUrl == OrEmpty(row.url)
      projectId   == OrEmpty(row.project)
  IN  /\ ~(originalUrl = DELETED)
      /\ ~(Truthy(filter) /\ projectId # filter)

\* the two `continue` tests of extractMigratableVideos, negated
Migratable(row, filter) ==
  LET originalUrl == OrEmpty(row.url)
      projectId   == OrEmpty(row.project)
  IN  /\ ~(originalUrl = "" \/ originalUrl = DELETED)
      /\ ~(Truthy(filter) /\ projectId # filter)

extractMigratableVideos(records, filter) ==
  LET kept == SelectSeq(records, LAMBDA row : Migratable(row, filter))
  IN  [ k \in 1..Len(kept) |-> ToVideo(kept[k]) ]

\* mutant: the set is built without the filter on r.success
AlreadyMigratedSet_AnyOutcome(prev) ==
  { prev[k].spotlightrId : k \in 1..Len(prev) }

\* new Set(previousResults.filter((r) => r.success).map((r) => r.spotlightrId))
AlreadyMigratedSet(prev) ==
  { prev[k].spotlightrId : k \in { j \in 1..Len(prev) : prev[j].success } }

(***************************************************************************)
(* The remote copy API as migrate.js sees it: what `await                  *)
(* uploadToCloudflare(video)` can give: a success response with a uid, an  *)
(* error response with a message, a thrown fault (fetch or response.json   *)
(* rejecting).                                                             *)
(***************************************************************************)
UidOf(id) == "u" \o id

Responses(video) ==
  { [ thrown |-> FALSE, success |-> TRUE,  uid |-> UidOf(video.spotlightrId),
      errors |-> << >>, message |-> Absent ],
    [ thrown |-> FALSE, success |-> FALSE, uid |-> Absent,
      errors |-> << "Bad Request" >>, message |-> Absent ],
    [ thrown |-> TRUE,  success |-> FALSE, uid |-> Absent,
      errors |-> << >>, message |-> "fetch failed" ] }

RECURSIVE Join(_)
\* messages.join(", ")
Join(msgs) ==
  IF Len(msgs) = 0 THEN ""
  ELSE IF Len(msgs) = 1 THEN msgs[1]
  ELSE msgs[1] \o ", " \o Join(Tail(msgs))

\* response.errors?.map((e) => e.message).join(", ") || "Unknown error"
\* (errors holds the messages; a response without errors and one with an
\* empty list both give "", hence "Unknown error")
ErrorMsg(response) ==
  IF Join(response.errors) = "" THEN "Unknown error"
  ELSE Join(response.errors)

\* the outcome of the try/catch around the upload of one video
Succeeded(response) == ~response.thrown /\ response.success

\* the object the try/catch pushes on results
EntryFor(video, response, now) ==
  IF Succeeded(response)
  THEN [ spotlightrId  |-> video.spotlightrId,
         name          |-> video.name,
         projectId     |-> video.projectId,
         sourceUrl     |-> video.url,
         cloudflareUid |-> IF Truthy(response.uid) THEN response.uid ELSE "unknown",
         success       |-> TRUE,
         timestamp     |-> now ]
  ELSE [ spotlightrId  |-> video.spotlightrId,
         name          |-> video.name,
         projectId     |-> video.projectId,
         sourceUrl     |-> video.url,
         success       |-> FALSE,
         error         |-> IF response.thrown THEN response.message
                           ELSE ErrorMsg(response),
         timestamp     |-> now ]

\* caption-upload.log and ./caption when they do not exist
NoLog == [exists |-> FALSE, lines |-> << >>]

NoDir == [exists |-> FALSE, files |-> << >>]

\* upload-captions.js has not been started, in a directory without captions
CaptionNotStarted ==
  /\ capPc = "idle"
  /\ capDryRun = FALSE
  /\ migrationResults = << >>
  /\ srtFiles = << >>
  /\ matched = << >>
  /\ unmatched = << >>
  /\ ci = 0
  /\ capSuccessCount = 0
  /\ capFailCount = 0
  /\ capSleeps = 0
  /\ capCalls = << >>

CaptionIdle ==
  /\ CaptionNotStarted
  /\ captionDir = NoDir
  /\ logFile = NoLog
  /\ logFile0 = NoLog

\* one line `    "key": value` of JSON.stringify(results, null, 2), for a
\* value of the given length
FieldLen(key, valueLen) == 4 + (Len(key) + 2) + 2 + valueLen

\* a string value with its quotes
StringLen(v) == Len(v) + 2

\* the text of one entry: `  {`, its lines separated by `,` and a line
\* break, `  }`; true has 4 characters, false 5, an ISO timestamp 24
EntryLen(e) ==
  4 + FieldLen("spotlightrId", StringLen(e.spotlightrId))
    + 2 + FieldLen("name", StringLen(e.name))
    + 2 + FieldLen("projectId", StringLen(e.projectId))
    + 2 + FieldLen("sourceUrl", StringLen(e.sourceUrl))
    + 2 + (IF e.success
             THEN FieldLen("cloudflareUid", StringLen(e.cloudflareUid))
                  + 2 + FieldLen("success", 4)
             ELSE FieldLen("success", 5)
                  + 2 + FieldLen("error", StringLen(e.error)))
    + 2 + FieldLen("timestamp", 24 + 2)
    + 4

RECURSIVE EntriesLen(_)
EntriesLen(es) ==
  IF es = << >> THEN 0
  ELSE EntryLen(Head(es)) + (IF Len(es) > 1 THEN 2 ELSE 0) + EntriesLen(Tail(es))

\* the length of JSON.stringify(results, null, 2)
TextLen(es) == IF es = << >> THEN 2 ELSE 2 + EntriesLen(es) + 2

\* the length of the text of a file left by a completed write
FileLen(file) == IF file.exists /\ file.parses THEN TextLen(file.entries) ELSE 0

\* the processes of the two-process specification
Procs == { 1, 2 }

\* a process that is not running, with nothing in memory
NoProcess ==
  [ pc |-> "idle", run |-> 0, videos |-> << >>, alreadyMigrated |-> {},
    results |-> << >>, i |-> 0, lostAtLoad |-> {} ]

\* no process of the two-process specification runs; the length of the
\* file's text is followed in that specification only
ConcurrentIdle ==
  /\ proc = [p \in Procs |-> NoProcess]
  /\ starts = 0
  /\ uploads = 0
  /\ diskLen = 0
  /\ lost = {}
  /\ again = {}

\* normalize is not being applied
NormalizerIdle ==
  /\ nPc = "idle"
  /\ nName = << >>
  /\ nKey = << >>
  /\ nKey2 = << >>

(***************************************************************************)
(* Initial state: no process runs; the results file is missing, or is one *)
(* that an earlier run of the tool left.                                   *)
(***************************************************************************)
NoSummary == [ printed |-> FALSE, success |-> 0, skipped |-> 0, failed |-> 0, total |-> 0 ]

OkResponse(video) ==
  [ thrown |-> FALSE, success |-> TRUE, uid |-> UidOf(video.spotlightrId),
    errors |-> << >>, message |-> Absent ]

BadResponse ==
  [ thrown |-> FALSE, success |-> FALSE, uid |-> Absent,
    errors |-> << "Bad Request" >>, message |-> Absent ]

\* no file yet, or the file an earlier run left after it uploaded the first
\* record (a run writes the file only after it has pushed an entry)
InitialFiles(records) ==
  { NoFile,
    Json(<< EntryFor(ToVideo(records[1]), OkResponse(ToVideo(records[1])), 0) >>),
    Json(<< EntryFor(ToVideo(records[1]), BadResponse, 0) >>) }

Init ==
  /\ manifest \in Manifests
  /\ disk \in { f \in InitialFiles(manifest) :
                  Len(f.entries) > 0 => Migratable(manifest[1], Null) }
  /\ pc = "idle"
  /\ runs = 0
  /\ DRY_RUN = FALSE
  /\ FILTER_PROJECT = Null
  /\ videos = << >>
  /\ previousResults = << >>
  /\ alreadyMigrated = {}
  /\ results = << >>
  /\ i = 0
  /\ successCount = 0
  /\ skipCount = 0
  /\ failCount = 0
  /\ summary = NoSummary
  /\ inFlight = 0
  /\ sleeps = 0
  /\ submitted = << >>
  /\ disk0 = disk
  /\ durable = loadPreviousResults(disk)
  /\ retried = {}
  /\ NormalizerIdle
  /\ CaptionIdle
  /\ ConcurrentIdle

(***************************************************************************)
(* Actions.                                                                *)
(***************************************************************************)
\* What the process loses when it ends: main's locals.
ClearLocals ==
  /\ videos' = << >>
  /\ previousResults' = << >>
  /\ alreadyMigrated' = {}
  /\ results' = << >>
  /\ i' = 0
  /\ successCount' = 0
  /\ skipCount' = 0
  /\ failCount' = 0

\* What a terminated process leaves: nothing but the file.
ClearProcess(file) ==
  /\ ClearLocals
  /\ DRY_RUN' = FALSE
  /\ FILTER_PROJECT' = Null
  /\ summary' = NoSummary
  /\ inFlight' = 0
  /\ sleeps' = 0
  /\ submitted' = << >>
  /\ disk0' = file

\* `node migrate.js` with CLOUDFLARE_ACCOUNT_ID or CLOUDFLARE_API_TOKEN not
\* set, or without the CSV file: process.exit(1) before main reads the
\* results file.
StartFatal ==
  /\ pc \in { "idle", "done", "crashed", "fatal" }
  /\ runs < MaxRuns
  /\ runs' = runs + 1
  /\ pc' = "fatal"
  /\ ClearProcess(disk)
  /\ UNCHANGED otherVars
  /\ UNCHANGED << manifest, disk, durable, retried >>

\* `node migrate.js [--dry-run] [--project=ID]`: main from its first line to
\* the head of the for loop.
StartRun(dry, project) ==
  /\ pc \in { "idle", "done", "crashed", "fatal" }
  /\ runs < MaxRuns
  /\ runs' = runs + 1
  /\ DRY_RUN' = dry
  /\ FILTER_PROJECT' = project
  /\ summary' = NoSummary
  /\ inFlight' = 0
  /\ sleeps' = 0
  /\ submitted' = << >>
  /\ disk0' = disk
  /\ LET vs == extractMigratableVideos(manifest, project)
     IN  IF Len(vs) = 0
         THEN \* "Nothing to migrate. Exiting."
              /\ pc' = "done"
              /\ ClearLocals
         ELSE /\ pc' = "loop"
              /\ videos' = vs
              /\ previousResults' = loadPreviousResults(disk)
              /\ alreadyMigrated' = AlreadyMigratedSet(loadPreviousResults(disk))
              /\ results' = loadPreviousResults(disk)
              /\ i' = 0
              /\ successCount' = 0
              /\ skipCount' = 0
              /\ failCount' = 0
  /\ UNCHANGED otherVars
  /\ UNCHANGED << manifest, disk, durable, retried >>

\* mutant: the skip branch does not count the video
SkipAlreadyMigrated_Uncounted ==
  /\ pc = "loop"
  /\ i < Len(videos)
  /\ videos[i + 1].spotlightrId \in alreadyMigrated
  /\ i' = i + 1
  /\ UNCHANGED otherVars
  /\ UNCHANGED << manifest, disk, pc, runs, DRY_RUN, FILTER_PROJECT, videos,
                  previousResults, alreadyMigrated, results, successCount,
                  skipCount, failCount, summary, inFlight, sleeps, submitted,
                  disk0, durable, retried >>

\* if (alreadyMigrated.has(video.spotlightrId)) { skipCount++; continue; }
SkipAlreadyMigrated ==
  /\ pc = "loop"
  /\ i < Len(videos)
  /\ videos[i + 1].spotlightrId \in alreadyMigrated
  /\ skipCount' = skipCount + 1
  /\ i' = i + 1
  /\ UNCHANGED otherVars
  /\ UNCHANGED << manifest, disk, pc, runs, DRY_RUN, FILTER_PROJECT, videos,
                  previousResults, alreadyMigrated, results, successCount,
                  failCount, summary, inFlight, sleeps, submitted, disk0,
                  durable, retried >>

\* if (DRY_RUN) { successCount++; continue; }
DryRunItem ==
  /\ pc = "loop"
  /\ i < Len(videos)
  /\ videos[i + 1].spotlightrId \notin alreadyMigrated
  /\ DRY_RUN
  /\ successCount' = successCount + 1
  /\ i' = i + 1
  /\ UNCHANGED otherVars
  /\ UNCHANGED << manifest, disk, pc, runs, DRY_RUN, FILTER_PROJECT, videos,
                  previousResults, alreadyMigrated, results, skipCount,
                  failCount, summary, inFlight, sleeps, submitted, disk0,
                  durable, retried >>

\* mutant: the upload branch is taken without the test of DRY_RUN
Upload_IgnoringDryRun ==
  /\ pc = "loop"
  /\ i < Len(videos)
  /\ videos[i + 1].spotlightrId \notin alreadyMigrated
  /\ pc' = "inflight"
  /\ inFlight' = inFlight + 1
  /\ submitted' = Append(submitted, videos[i + 1])
  /\ UNCHANGED otherVars
  /\ UNCHANGED << manifest, disk, runs, DRY_RUN, FILTER_PROJECT, videos,
                  previousResults, alreadyMigrated, results, i, successCount,
                  skipCount, failCount, summary, sleeps, disk0, durable,
                  retried >>

\* const response = await uploadToCloudflare(video): the request is sent
Upload ==
  /\ pc = "loop"
  /\ i < Len(videos)
  /\ videos[i + 1].spotlightrId \notin alreadyMigrated
  /\ ~DRY_RUN
  /\ pc' = "inflight"
  /\ inFlight' = inFlight + 1
  /\ submitted' = Append(submitted, videos[i + 1])
  /\ UNCHANGED otherVars
  /\ UNCHANGED << manifest, disk, runs, DRY_RUN, FILTER_PROJECT, videos,
                  previousResults, alreadyMigrated, results, i, successCount,
                  skipCount, failCount, summary, sleeps, disk0, durable,
                  retried >>

\* the ids that previousResults lists with failures only
FailedOnly(prev) ==
  { prev[k].spotlightrId : k \in 1..Len(prev) } \ AlreadyMigratedSet(prev)

\* mutant: no catch around the upload; a thrown fault rejects main, and
\* main().catch ends the process with exit code 1
Resolve_NoCatch(response) ==
  /\ pc = "inflight"
  /\ response \in Responses(videos[i + 1])
  /\ inFlight' = inFlight - 1
  /\ LET entry == EntryFor(videos[i + 1], response, runs)
     IN  IF response.thrown
         THEN /\ pc' = "fatal"
              /\ UNCHANGED << results, disk, durable, successCount, failCount,
                              retried, i >>
         ELSE /\ results' = Append(results, entry)
              /\ disk' = saveMigrationResults(Append(results, entry))
              /\ durable' = loadPreviousResults(saveMigrationResults(Append(results, entry)))
              /\ successCount' = IF entry.success THEN successCount + 1 ELSE successCount
              /\ failCount' = IF entry.success THEN failCount ELSE failCount + 1
              /\ retried' = IF entry.success /\ entry.spotlightrId \in FailedOnly(previousResults)
                            THEN retried \cup { << entry.spotlightrId, runs >> }
                            ELSE retried
              /\ IF i < Len(videos) - 1
                 THEN pc' = "sleep" /\ i' = i
                 ELSE pc' = "loop" /\ i' = i + 1
  /\ UNCHANGED otherVars
  /\ UNCHANGED << manifest, runs, DRY_RUN, FILTER_PROJECT, videos,
                  previousResults, alreadyMigrated, skipCount, summary, sleeps,
                  submitted, disk0 >>

\* the same step with the delay taken after every upload, the last included
Resolve_DelayAlways(response) ==
  /\ pc = "inflight"
  /\ response \in Responses(videos[i + 1])
  /\ inFlight' = inFlight - 1
  /\ LET entry == EntryFor(videos[i + 1], response, runs)
     IN  /\ results' = Append(results, entry)
         /\ disk' = saveMigrationResults(Append(results, entry))
         /\ durable' = loadPreviousResults(saveMigrationResults(Append(results, entry)))
         /\ successCount' = IF entry.success THEN successCount + 1 ELSE successCount
         /\ failCount' = IF entry.success THEN failCount ELSE failCount + 1
         /\ retried' = IF entry.success /\ entry.spotlightrId \in FailedOnly(previousResults)
                       THEN retried \cup { << entry.spotlightrId, runs >> }
                       ELSE retried
  /\ pc' = "sleep"
  /\ i' = i
  /\ UNCHANGED otherVars
  /\ UNCHANGED << manifest, runs, DRY_RUN, FILTER_PROJECT, videos,
                  previousResults, alreadyMigrated, skipCount, summary, sleeps,
                  submitted, disk0 >>

\* The await resolves or rejects: the rest of the try/catch, then
\* saveMigrationResults(results), then the test of the rate-limit delay.
Resolve(response) ==
  /\ pc = "inflight"
  /\ response \in Responses(videos[i + 1])
  /\ inFlight' = inFlight - 1
  /\ LET entry == EntryFor(videos[i + 1], response, runs)
     IN  /\ results' = Append(results, entry)
         /\ disk' = saveMigrationResults(Append(results, entry))
         /\ durable' = loadPreviousResults(saveMigrationResults(Append(results, entry)))
         /\ successCount' = IF entry.success THEN successCount + 1 ELSE successCount
         /\ failCount' = IF entry.success THEN failCount ELSE failCount + 1
         /\ retried' = IF entry.success /\ entry.spotlightrId \in FailedOnly(previousResults)
                       THEN retried \cup { << entry.spotlightrId, runs >> }
                       ELSE retried
  /\ IF i < Len(videos) - 1
     THEN /\ pc' = "sleep"
          /\ i' = i
     ELSE /\ pc' = "loop"
          /\ i' = i + 1
  /\ UNCHANGED otherVars
  /\ UNCHANGED << manifest, runs, DRY_RUN, FILTER_PROJECT, videos,
                  previousResults, alreadyMigrated, skipCount, summary, sleeps,
                  submitted, disk0 >>

\* await sleep(Number(DELAY_MS)) is over; i++
SleepDone ==
  /\ pc = "sleep"
  /\ sleeps' = sleeps + 1
  /\ i' = i + 1
  /\ pc' = "loop"
  /\ UNCHANGED otherVars
  /\ UNCHANGED << manifest, disk, runs, DRY_RUN, FILTER_PROJECT, videos,
                  previousResults, alreadyMigrated, results, successCount,
                  skipCount, failCount, summary, inFlight, submitted, disk0,
                  durable, retried >>

\* the loop is over: the "Migration Summary"
Summary ==
  /\ pc = "loop"
  /\ ~(i < Len(videos))
  /\ summary' = [ printed |-> TRUE, success |-> successCount, skipped |-> skipCount,
                  failed |-> failCount, total |-> Len(videos) ]
  /\ pc' = "done"
  /\ UNCHANGED otherVars
  /\ UNCHANGED << manifest, disk, runs, DRY_RUN, FILTER_PROJECT, videos,
                  previousResults, alreadyMigrated, results, i, successCount,
                  skipCount, failCount, inFlight, sleeps, submitted, disk0,
                  durable, retried >>

\* The process is terminated (kill, power loss) while it is in the loop and
\* not inside writeFileSync: the file stays as it is, the memory is gone.
Crash ==
  /\ pc \in { "loop", "inflight", "sleep" }
  /\ pc' = "crashed"
  /\ ClearProcess(disk)
  /\ UNCHANGED otherVars
  /\ UNCHANGED << manifest, disk, runs, durable, retried >>

\* The process is terminated inside writeFileSync, which has truncated the
\* file and not yet written all of the new text.
CrashInSave ==
  /\ pc = "inflight"
  /\ disk' = Torn
  /\ pc' = "crashed"
  /\ ClearProcess(Torn)
  /\ UNCHANGED otherVars
  /\ UNCHANGED << manifest, runs, durable, retried >>

Next ==
  \/ \E dry \in BOOLEAN, project \in ProjectFlags : StartRun(dry, project)
  \/ StartFatal
  \/ SkipAlreadyMigrated
  \/ DryRunItem
  \/ Upload
  \/ pc = "inflight" /\ \E response \in Responses(videos[i + 1]) : Resolve(response)
  \/ SleepDone
  \/ Summary
  \/ Crash
  \/ CrashInSave

Spec == Init /\ [][Next]_vars

(***************************************************************************)
(* Definitions shared by the properties.                                   *)
(***************************************************************************)
InRun == pc \in { "loop", "inflight", "sleep" }

\* a run that went through the loop and printed its summary
Finished == pc = "done" /\ summary.printed

\* the ledger a process would load from the file as it is now
Persisted == loadPreviousResults(disk)

\* the ledger the current run loaded when it started
LoadedAtStart == loadPreviousResults(disk0)

HasSuccess(ledger, id) ==
  \E j \in 1..Len(ledger) : ledger[j].spotlightrId = id /\ ledger[j].success

HasEntry(ledger, id) ==
  \E j \in 1..Len(ledger) : ledger[j].spotlightrId = id

IsPrefix(s, t) == Len(s) <= Len(t) /\ \A k \in 1..Len(s) : t[k] = s[k]

\* the entries a ledger holds after the first n
After(ledger, n) == [ k \in 1..(Len(ledger) - n) |-> ledger[n + k] ]

(***************************************************************************)
(* C1 -- idempotent resume.  When a non-dry-run run has printed its        *)
(* summary: with N the number of eligible records and K the number of      *)
(* them whose id had a Success entry in the ledger loaded at start,        *)
(* uploadToCloudflare was called exactly N - K times, the persisted ledger *)
(* has an entry for the id of every eligible record, and the ledger loaded *)
(* at start is still there, unchanged, as the head of the persisted one.   *)
(***************************************************************************)
SucceededAtStart ==
  { k \in 1..Len(videos) : HasSuccess(LoadedAtStart, videos[k].spotlightrId) }

IdempotentResume ==
  (Finished /\ ~DRY_RUN) =>
     /\ Len(submitted) = Len(videos) - Cardinality(SucceededAtStart)
     /\ \A k \in 1..Len(videos) : HasEntry(Persisted, videos[k].spotlightrId)
     /\ IsPrefix(LoadedAtStart, Persisted)

\* a finished resume with 0 < K < N
IdempotentResumeWitness ==
  /\ Finished /\ ~DRY_RUN
  /\ Cardinality(SucceededAtStart) >= 1
  /\ Cardinality(SucceededAtStart) < Len(videos)
  /\ Len(submitted) >= 1

(***************************************************************************)
(* C2 -- dedup check.  While an upload is in flight, the ledger in memory  *)
(* holds no Success entry for the id of the video being uploaded: a video  *)
(* whose id has a Success entry at that moment, loaded at start or         *)
(* recorded earlier in the same run, is skipped and never submitted.       *)
(***************************************************************************)
NeverResubmitSucceeded ==
  pc = "inflight" => ~HasSuccess(results, videos[i + 1].spotlightrId)

(***************************************************************************)
(* C3 -- dry-run purity.  In a dry run, at every point of the run and at   *)
(* its end, uploadToCloudflare has not been called and the results file is *)
(* what it was when the run started.                                       *)
(***************************************************************************)
DryRunPurity ==
  (DRY_RUN /\ (InRun \/ pc = "done")) =>
     /\ submitted = << >>
     /\ inFlight = 0
     /\ disk = disk0

\* a finished dry run that found a video to upload and a ledger on disk
DryRunPurityWitness ==
  /\ Finished /\ DRY_RUN
  /\ summary.success >= 1
  /\ Len(Persisted) >= 1

(***************************************************************************)
(* C4 -- persist before next.  Whenever a non-dry-run run is between two   *)
(* items or has an upload in flight, the results file holds exactly the    *)
(* ledger in memory, which holds, after the entries loaded at start, one   *)
(* entry with the outcome of every upload of this run that has resolved,   *)
(* in order; at most one upload is in flight; and a termination between    *)
(* two items leaves a file that loads as that ledger.                      *)
(***************************************************************************)
ResolvedUploads == Len(submitted) - inFlight

OutcomeOf(entry, video) ==
  /\ entry.spotlightrId = video.spotlightrId
  /\ entry.sourceUrl = video.url

PersistedEqualsMemory ==
  (InRun /\ ~DRY_RUN) =>
     /\ Persisted = results
     /\ inFlight <= 1
     /\ (inFlight = 1) = (pc = "inflight")
     /\ IsPrefix(previousResults, results)
     /\ Len(results) = Len(previousResults) + ResolvedUploads
     /\ \A k \in 1..ResolvedUploads :
           OutcomeOf(results[Len(previousResults) + k], submitted[k])

PersistBeforeNext ==
  /\ []PersistedEqualsMemory
  /\ [][ (pc \in { "loop", "sleep" } /\ ~DRY_RUN /\ pc' = "crashed")
           => loadPreviousResults(disk') = results ]_vars

\* a second upload is in flight and the first one's outcome is on disk
PersistBeforeNextWitness ==
  /\ pc = "inflight" /\ ~DRY_RUN
  /\ Len(submitted) = 2
  /\ Len(Persisted) >= 1
  /\ OutcomeOf(Persisted[Len(Persisted)], submitted[1])

(***************************************************************************)
(* C5 -- atomic persist.  Every entry that a completed write made durable  *)
(* is still loaded from the results file, whatever happened since          *)
(* (including a termination in the middle of a later write): the ledger    *)
(* of the last completed write is a prefix of the ledger that loads now.   *)
(***************************************************************************)
AtomicPersist == IsPrefix(durable, Persisted)

(***************************************************************************)
(* C6 -- a failed item never aborts the run.  When an upload resolves      *)
(* (success, error response or thrown fault) and the process is not        *)
(* terminated from outside, the run records one entry for that video, a    *)
(* Failure entry carrying a non-empty error message unless the response    *)
(* was a success, and goes on with the loop; and when a non-dry-run run    *)
(* has printed its summary, the videos uploaded are exactly the eligible   *)
(* records whose id had no Success entry at start, once each and in input  *)
(* order, each with exactly one new ledger entry; and a run in the loop    *)
(* always has a next step, up to the summary.                              *)
(***************************************************************************)
NotYetSucceeded ==
  SelectSeq(videos, LAMBDA v : ~HasSuccess(LoadedAtStart, v.spotlightrId))

NewEntries == After(Persisted, Len(LoadedAtStart))

EveryPendingRecordSubmittedOnce ==
  (Finished /\ ~DRY_RUN) =>
     /\ submitted = NotYetSucceeded
     /\ Len(NewEntries) = Len(submitted)
     /\ \A k \in 1..Len(submitted) : OutcomeOf(NewEntries[k], submitted[k])
     /\ summary.failed = Cardinality({ k \in 1..Len(NewEntries) : ~NewEntries[k].success })

\* a step of main (not a termination from outside)
EngineStep ==
  \/ SkipAlreadyMigrated
  \/ DryRunItem
  \/ Upload
  \/ pc = "inflight" /\ \E response \in Responses(videos[i + 1]) : Resolve(response)
  \/ SleepDone
  \/ Summary

RunCanProceed == InRun => ENABLED EngineStep

FailureNeverAborts ==
  /\ []EveryPendingRecordSubmittedOnce
  /\ []RunCanProceed
  /\ [][ (pc = "inflight" /\ pc' # "crashed") =>
           /\ pc' \in { "loop", "sleep" }
           /\ Len(results') = Len(results) + 1
           /\ OutcomeOf(results'[Len(results')], videos[i + 1])
           /\ (failCount' = failCount + 1) =>
                 /\ ~results'[Len(results')].success
                 /\ results'[Len(results')].error # ""
           /\ (failCount' = failCount) => results'[Len(results')].success
           /\ failCount' \in { failCount, failCount + 1 }
           /\ videos' = videos
           /\ (pc' = "loop" => i' = i + 1) ]_vars

\* a finished run whose first upload threw and whose second upload, made
\* all the same, got an error response
FailureNeverAbortsWitness ==
  /\ Finished /\ ~DRY_RUN
  /\ Len(submitted) = 2
  /\ Len(NewEntries) = 2
  /\ ~NewEntries[1].success /\ NewEntries[1].error = "fetch failed"
  /\ ~NewEntries[2].success /\ NewEntries[2].error = "Bad Request"
  /\ summary.failed = 2

(***************************************************************************)
(* C7 -- ledger key uniqueness.  The ledger in memory and the ledger on    *)
(* disk never hold two entries with the same spotlightrId.                 *)
(***************************************************************************)
UniqueIds(ledger) ==
  \A j, k \in 1..Len(ledger) :
     ledger[j].spotlightrId = ledger[k].spotlightrId => j = k

LedgerKeyUnique == UniqueIds(results) /\ UniqueIds(Persisted)

(***************************************************************************)
(* C8 -- a Failure is retried on re-run.  A finished non-dry-run run has   *)
(* uploaded every eligible record whose id it loaded with Failure entries  *)
(* only; and once such a retry has succeeded and been saved, no later run  *)
(* uploads that id again.                                                  *)
(***************************************************************************)
FailureRetriedThenCompleted ==
  /\ (Finished /\ ~DRY_RUN) =>
        \A k \in 1..Len(videos) :
           videos[k].spotlightrId \in FailedOnly(LoadedAtStart)
             => \E j \in 1..Len(submitted) : submitted[j] = videos[k]
  /\ pc = "inflight" =>
        \A r \in retried : r[2] < runs => videos[i + 1].spotlightrId # r[1]

(***************************************************************************)
(* C9 -- eligibility filter.  In a run, the videos kept are, in manifest   *)
(* order, exactly the rows whose original file URL is neither empty nor    *)
(* DELETED and whose project equals the --project filter when one is       *)
(* given; only such videos are passed to uploadToCloudflare, and only for  *)
(* such videos does the run add a ledger entry.                            *)
(***************************************************************************)
FilterConfigured == FILTER_PROJECT # Null /\ FILTER_PROJECT # ""

IneligibleUrl(url) == url = "" \/ url = Absent \/ url = DELETED

EligibleRow(row) ==
  /\ ~IneligibleUrl(row.url)
  /\ FilterConfigured => row.project = FILTER_PROJECT

EligibleRows == SelectSeq(manifest, EligibleRow)

EligibilityFilter ==
  /\ (InRun \/ Finished) =>
        /\ Len(videos) = Len(EligibleRows)
        /\ \A k \in 1..Len(videos) :
              /\ videos[k].spotlightrId = EligibleRows[k].id
              /\ videos[k].url = EligibleRows[k].url
              /\ videos[k].projectId = EligibleRows[k].project
              /\ videos[k].name = EligibleRows[k].video
        /\ \A k \in 1..(Len(results) - Len(previousResults)) :
              LET entry == results[Len(previousResults) + k]
              IN  /\ ~IneligibleUrl(entry.sourceUrl)
                  /\ FilterConfigured => entry.projectId = FILTER_PROJECT
  /\ (pc = "done" /\ ~summary.printed) => (Len(EligibleRows) = 0 /\ disk = disk0)
  /\ \A k \in 1..Len(submitted) :
        /\ ~IneligibleUrl(submitted[k].url)
        /\ FilterConfigured => submitted[k].projectId = FILTER_PROJECT

\* a finished run with --project=10 over a manifest of two rows, one of
\* them ineligible (no URL, DELETED, or project 20), neither uploaded nor
\* recorded, the other uploaded and recorded
EligibilityFilterWitness ==
  /\ Finished /\ ~DRY_RUN
  /\ FILTER_PROJECT = "10"
  /\ Len(manifest) = 2
  /\ \E k \in 1..2 : IneligibleUrl(manifest[k].url) \/ manifest[k].project = "20"
  /\ Len(submitted) = 1
  /\ Len(Persisted) = Len(LoadedAtStart) + 1

(***************************************************************************)
(* C10 -- summary tally, as the claim states it.  The summary of a         *)
(* finished non-dry-run run counts every manifest record once, as          *)
(* succeeded, skipped as already done, skipped as ineligible or failed,    *)
(* and its total is the number of manifest records.                        *)
(***************************************************************************)
SkippedIneligible == Len(manifest) - Len(EligibleRows)

SummaryCountsManifest ==
  (Finished /\ ~DRY_RUN) =>
     /\ summary.total = Len(manifest)
     /\ summary.success + summary.skipped + SkippedIneligible + summary.failed
          = summary.total

(***************************************************************************)
(* C10 -- summary tally, amended.  The summary of a finished non-dry-run   *)
(* run has no count of ineligible records: it counts every eligible        *)
(* record once, as succeeded (one new Success entry each), skipped as      *)
(* already migrated (its id had a Success entry at start) or failed (one   *)
(* new Failure entry each), and its total is the number of eligible        *)
(* records; a run without eligible records prints no summary.  For the     *)
(* manifest [id 1 available, id 2 DELETED], no ledger and a succeeding     *)
(* upload it is Success 1, Skipped 0, Failed 0, Total 1.                   *)
(***************************************************************************)
ExampleManifest ==
  << [id |-> "1", video |-> "A", url |-> "http://x/a.mp4", project |-> "10", hls |-> Absent],
     [id |-> "2", video |-> "B", url |-> DELETED,          project |-> "10", hls |-> Absent] >>

ExampleRun ==
  /\ manifest = ExampleManifest
  /\ FILTER_PROJECT = Null
  /\ Len(LoadedAtStart) = 0
  /\ \A k \in 1..Len(NewEntries) : NewEntries[k].success

SummaryCountsEligible ==
  /\ (Finished /\ ~DRY_RUN) =>
        /\ summary.total = Len(EligibleRows)
        /\ summary.total >= 1
        /\ summary.success + summary.skipped + summary.failed = summary.total
        /\ summary.success = Cardinality({ k \in 1..Len(NewEntries) : NewEntries[k].success })
        /\ summary.failed = Cardinality({ k \in 1..Len(NewEntries) : ~NewEntries[k].success })
        /\ summary.skipped = Cardinality(SucceededAtStart)
        /\ ExampleRun =>
             summary = [ printed |-> TRUE, success |-> 1, skipped |-> 0,
                         failed |-> 0, total |-> 1 ]
  /\ (pc = "done" /\ Len(EligibleRows) = 0) => ~summary.printed

\* the example run of the claim has finished: one Success entry, with uid u1
SummaryCountsEligibleWitness ==
  /\ Finished /\ ~DRY_RUN
  /\ ExampleRun
  /\ Len(Persisted) = 1
  /\ Persisted[1].spotlightrId = "1"
  /\ Persisted[1].cloudflareUid = "u1"
  /\ summary.total = 1

(***************************************************************************)
(* upload-captions.js: names and normalize.                                *)
(***************************************************************************)

\* longest name given to normalize, in tokens
MaxNameLen == 4

\* the pieces names are built from: a letter, the two characters stripped
\* at the end of a name, two whitespace characters, and extensions written
\* in lower and in upper case
Tokens == { "a", "_", ".", " ", "\t", "srt", "SRT", "mp4" }

Names == UNION { [1..n -> Tokens] : n \in 0..MaxNameLen }

\* String.prototype.toLowerCase on one token
ToLowerCase(token) == IF token = "SRT" THEN "srt" ELSE token

\* \s of a regular expression, and the characters trim removes
IsSpace(token) == token \in { " ", "\t" }

\* the name without its last n tokens
DropLast(name, n) == SubSeq(name, 1, Len(name) - n)

\* /\.(mp4|srt|MP4)$/i matches: the name ends with a dot and one extension
EndsWithExtension(name) ==
  /\ Len(name) >= 2
  /\ name[Len(name) - 1] = "."
  /\ ToLowerCase(name[Len(name)]) \in { "mp4", "srt" }

\* .replace(/\.(mp4|srt|MP4)$/i, ""): one extension at the end is removed
StripExtension(name) ==
  IF EndsWithExtension(name) THEN DropLast(name, 2) ELSE name

\* .replace(/[_.]$/g, ""): $ matches once, so one character is removed
StripTrailing(name) ==
  IF Len(name) >= 1 /\ name[Len(name)] \in { "_", "." }
    THEN DropLast(name, 1)
    ELSE name

\* .replace(/\s+/g, " "): every run of whitespace becomes one space
RECURSIVE CollapseSpaces(_)
CollapseSpaces(name) ==
  IF name = << >> THEN << >>
  ELSE IF IsSpace(Head(name))
    THEN IF Len(name) >= 2 /\ IsSpace(name[2])
           THEN CollapseSpaces(Tail(name))
           ELSE << " " >> \o CollapseSpaces(Tail(name))
    ELSE << Head(name) >> \o CollapseSpaces(Tail(name))

RECURSIVE TrimStart(_)
TrimStart(name) ==
  IF name # << >> /\ IsSpace(Head(name)) THEN TrimStart(Tail(name)) ELSE name

RECURSIVE TrimEnd(_)
TrimEnd(name) ==
  IF name # << >> /\ IsSpace(name[Len(name)])
    THEN TrimEnd(DropLast(name, 1))
    ELSE name

\* .trim()
Trim(name) == TrimEnd(TrimStart(name))

\* normalize(name): the four steps in the order of the code
normalize(name) == Trim(CollapseSpaces(StripTrailing(StripExtension(name))))

(***************************************************************************)
(* normalize applied to a name, then to its own result.                   *)
(***************************************************************************)

\* migrate.js has not been started
MigrateNotStarted ==
  /\ pc = "idle"
  /\ runs = 0
  /\ DRY_RUN = FALSE
  /\ FILTER_PROJECT = Null
  /\ videos = << >>
  /\ previousResults = << >>
  /\ alreadyMigrated = {}
  /\ results = << >>
  /\ i = 0
  /\ successCount = 0
  /\ skipCount = 0
  /\ failCount = 0
  /\ summary = NoSummary
  /\ inFlight = 0
  /\ sleeps = 0
  /\ submitted = << >>
  /\ retried = {}

NormInit ==
  /\ nPc = "input"
  /\ nName \in Names
  /\ nKey = << >>
  /\ nKey2 = << >>
  /\ manifest = << >>
  /\ disk = NoFile
  /\ disk0 = NoFile
  /\ durable = << >>
  /\ MigrateNotStarted
  /\ CaptionIdle
  /\ ConcurrentIdle

engineVars == << manifest, disk, pc, runs, DRY_RUN, FILTER_PROJECT, videos,
                 previousResults, alreadyMigrated, results, i, successCount,
                 skipCount, failCount, summary, inFlight, sleeps, submitted,
                 disk0, durable, retried >>

NormalizeOnce ==
  /\ nPc = "input"
  /\ nKey' = normalize(nName)
  /\ nPc' = "once"
  /\ UNCHANGED << nName, nKey2, engineVars, captionVars, concurrentVars >>

NormalizeTwice ==
  /\ nPc = "once"
  /\ nKey2' = normalize(nKey)
  /\ nPc' = "twice"
  /\ UNCHANGED << nName, nKey, engineVars, captionVars, concurrentVars >>

NormNext ==
  \/ NormalizeOnce
  \/ NormalizeTwice

NormSpec == NormInit /\ [][NormNext]_vars

\* C13: normalize is idempotent: applied to its own result it returns that
\* result, for every name.
NormalizeIdempotent == nPc = "twice" => nKey2 = nKey

\* the documented example: "a a_.mp4" and "a a.srt" both give "a a"
NormalizeExample ==
  /\ normalize(<< "a", " ", "a", "_", ".", "mp4" >>) = << "a", " ", "a" >>
  /\ normalize(<< "a", " ", "a", ".", "srt" >>) = << "a", " ", "a" >>

(***************************************************************************)
(* upload-captions.js: inputs.                                             *)
(***************************************************************************)

\* longest ./caption listing and longest ledger given to the caption tool
MaxFiles == 2

MaxLedger == 2

\* --lang was not given
LANGUAGE == "he"

\* a video as migrate.js holds it, with the given id and name
CaptionVideo(id, name) ==
  [ spotlightrId |-> id, name |-> name, projectId |-> "10",
    url |-> "http://x/" \o id \o ".mp4" ]

\* entries migrate.js can have written: "a.mp4" uploaded, "a_" uploaded
\* (the same normalized name), "a a.mp4" uploaded, "a.mp4" failed
CaptionEntries ==
  { EntryFor(CaptionVideo("1", << "a", ".", "mp4" >>),
             OkResponse(CaptionVideo("1", << "a", ".", "mp4" >>)), 1),
    EntryFor(CaptionVideo("2", << "a", "_" >>),
             OkResponse(CaptionVideo("2", << "a", "_" >>)), 1),
    EntryFor(CaptionVideo("3", << "a", " ", "a", ".", "mp4" >>),
             OkResponse(CaptionVideo("3", << "a", " ", "a", ".", "mp4" >>)), 1),
    EntryFor(CaptionVideo("4", << "a", ".", "mp4" >>), BadResponse, 1) }

\* migration-results.json as the caption tool can find it
CaptionLedgers ==
  { NoFile, Torn } \cup
  { Json(es) : es \in UNION { [1..n -> CaptionEntries] : n \in 0..MaxLedger } }

\* files of ./caption: "a.srt", "a_.srt", "a\t a.SRT" and "a.mp4"
CaptionFiles ==
  { << "a", ".", "srt" >>, << "a", "_", ".", "srt" >>,
    << "a", "\t", " ", "a", ".", "SRT" >>, << "a", ".", "mp4" >> }

\* a listing holds a file name once
Listings ==
  { fs \in UNION { [1..n -> CaptionFiles] : n \in 0..MaxFiles } :
      \A j, k \in 1..Len(fs) : j # k => fs[j] # fs[k] }

CaptionDirs == { NoDir } \cup { [exists |-> TRUE, files |-> fs] : fs \in Listings }

\* a log left by an earlier run
OldLog ==
  [ exists |-> TRUE,
    lines  |-> << [prefix |-> "--- Summary ---", name |-> << >>, uid |-> "",
                   text |-> "", n |-> 0] >> ]

(***************************************************************************)
(* upload-captions.js: functions.                                          *)
(***************************************************************************)

\* one line of caption-upload.log
Line(prefix, name, uid, text) ==
  [prefix |-> prefix, name |-> name, uid |-> uid, text |-> text, n |-> 0]

\* a line that ends with a count
CountLine(prefix, n) ==
  [prefix |-> prefix, name |-> << >>, uid |-> "", text |-> "", n |-> n]

\* log(line): appendFileSync creates the file when it is missing
log(file, lines) == [exists |-> TRUE, lines |-> file.lines \o lines]

\* "Initialise log file" written for every run, dry or not
InitialiseLog_Always(dry, file) ==
  log([exists |-> TRUE,
       lines  |-> << Line("=== Caption Upload Log", << >>, "", "") >>],
      << Line("Language: ", << >>, "", LANGUAGE), Line("", << >>, "", "") >>)

\* "Initialise log file": writeFileSync replaces the file, then two lines
InitialiseLog(dry, file) ==
  IF dry THEN file
  ELSE log([exists |-> TRUE,
            lines  |-> << Line("=== Caption Upload Log", << >>, "", "") >>],
           << Line("Language: ", << >>, "", LANGUAGE), Line("", << >>, "", "") >>)

\* results.filter((r) => r.success), of a file that exists and parses
loadMigrationResults(file) == SelectSeq(file.entries, LAMBDA r : r.success)

\* f.toLowerCase().endsWith(".srt")
IsSrt(f) ==
  /\ Len(f) >= 2
  /\ f[Len(f) - 1] = "."
  /\ ToLowerCase(f[Len(f)]) = "srt"

\* readdirSync(CAPTIONS_DIR).filter(...), of a directory that exists
loadSrtFiles(dir) == SelectSeq(dir.files, IsSrt)

\* a Map as the list of its [key, value] entries
MapHas(map, key) == \E k \in 1..Len(map) : map[k].key = key

MapGet(map, key) == map[CHOOSE k \in 1..Len(map) : map[k].key = key].value

\* the lookup where a later entry of the same key replaces the earlier one
RECURSIVE nameToVideo_LastWins(_, _)
nameToVideo_LastWins(entries, map) ==
  IF entries = << >> THEN map
  ELSE LET key == normalize(Head(entries).name)
       IN  nameToVideo_LastWins(Tail(entries),
             Append(SelectSeq(map, LAMBDA e : e.key # key),
                    [key |-> key, value |-> Head(entries)]))

\* the lookup map of matchCaptions: set only if (!nameToVideo.has(key))
RECURSIVE nameToVideo(_, _)
nameToVideo(entries, map) ==
  IF entries = << >> THEN map
  ELSE LET key == normalize(Head(entries).name)
       IN  nameToVideo(Tail(entries),
             IF MapHas(map, key) THEN map
             ELSE Append(map, [key |-> key, value |-> Head(entries)]))

\* the second loop of matchCaptions, from the files left and the result so far
RECURSIVE MatchFiles(_, _, _)
MatchFiles(files, map, acc) ==
  IF files = << >> THEN acc
  ELSE LET srtFile == Head(files)
           srtKey  == normalize(srtFile)
       IN  MatchFiles(Tail(files), map,
             IF MapHas(map, srtKey)
               THEN [acc EXCEPT !.matched =
                       Append(@, [ srtFile       |-> srtFile,
                                   videoName     |-> MapGet(map, srtKey).name,
                                   cloudflareUid |-> MapGet(map, srtKey).cloudflareUid,
                                   spotlightrId  |-> MapGet(map, srtKey).spotlightrId ])]
               ELSE [acc EXCEPT !.unmatched = Append(@, srtFile)])

matchCaptions(files, entries) ==
  MatchFiles(files, nameToVideo(entries, << >>),
             [matched |-> << >>, unmatched |-> << >>])

\* what await uploadCaption can give once the request was sent: the parsed
\* body of a success, of an error response, or a thrown fault
CaptionResponses ==
  { [thrown |-> FALSE, success |-> TRUE,  errors |-> << >>, message |-> Absent],
    [thrown |-> FALSE, success |-> FALSE, errors |-> << "Bad Request" >>,
     message |-> Absent],
    [thrown |-> TRUE,  success |-> FALSE, errors |-> << >>,
     message |-> "fetch failed"] }

\* readFileSync(srtFilePath) throws inside uploadCaption
ReadFault ==
  [thrown |-> TRUE, success |-> FALSE, errors |-> << >>, message |-> "ENOENT"]

\* the log calls of the try/catch of one pair where the catch logs nothing
OutcomeLines_CatchSilent(pair, response) ==
  IF response.thrown THEN << >>
  ELSE IF response.success
    THEN << Line("[OK] ", pair.srtFile, pair.cloudflareUid, "") >>
    ELSE << Line("[FAIL] ", pair.srtFile, pair.cloudflareUid, ""),
            Line("  Video name : ", pair.videoName, "", ""),
            Line("  SRT path   : ", pair.srtFile, "", ""),
            Line("  Error      : ", << >>, "", ErrorMsg(response)),
            Line("  Errors     : ", << >>, "", Join(response.errors)),
            Line("  Messages   : ", << >>, "", ""),
            Line("  Full resp  : ", << >>, "", Join(response.errors)),
            Line("", << >>, "", "") >>

\* the log calls of the try/catch of one pair
OutcomeLines(pair, response) ==
  IF response.thrown
    THEN << Line("[ERROR] ", pair.srtFile, pair.cloudflareUid, ""),
            Line("  Video name : ", pair.videoName, "", ""),
            Line("  Exception  : ", << >>, "", response.message),
            Line("  Stack      : ", << >>, "", response.message),
            Line("", << >>, "", "") >>
  ELSE IF response.success
    THEN << Line("[OK] ", pair.srtFile, pair.cloudflareUid, "") >>
    ELSE << Line("[FAIL] ", pair.srtFile, pair.cloudflareUid, ""),
            Line("  Video name : ", pair.videoName, "", ""),
            Line("  SRT path   : ", pair.srtFile, "", ""),
            Line("  Error      : ", << >>, "", ErrorMsg(response)),
            Line("  Errors     : ", << >>, "", Join(response.errors)),
            Line("  Messages   : ", << >>, "", ""),
            Line("  Full resp  : ", << >>, "", Join(response.errors)),
            Line("", << >>, "", "") >>

\* the lines of the summary: counts, then one line per unmatched file
SummaryLines(success, failed, unmatchedFiles) ==
  << Line("--- Summary ---", << >>, "", ""),
     CountLine("Success   : ", success),
     CountLine("Failed    : ", failed),
     CountLine("Unmatched : ", Len(unmatchedFiles)) >>
  \o [k \in 1..Len(unmatchedFiles) |-> Line("  - ", unmatchedFiles[k], "", "")]
  \o << Line("", << >>, "", "") >>

(***************************************************************************)
(* upload-captions.js: one run.                                            *)
(***************************************************************************)

\* the state before a run of the caption tool: any ledger file, any
\* ./caption, with or without an earlier log
CapInit ==
  /\ disk \in CaptionLedgers
  /\ captionDir \in CaptionDirs
  /\ logFile \in { NoLog, OldLog }
  /\ logFile0 = logFile
  /\ CaptionNotStarted
  /\ manifest = << >>
  /\ disk0 = disk
  /\ durable = loadPreviousResults(disk)
  /\ MigrateNotStarted
  /\ NormalizerIdle
  /\ ConcurrentIdle

\* main's locals stay as they are
CapLocalsUnchanged ==
  UNCHANGED << migrationResults, srtFiles, matched, unmatched, ci,
               capSuccessCount, capFailCount >>

\* process.exit(1), with caption-upload.log as given
CapExit(file) ==
  /\ capPc' = "fatal"
  /\ logFile' = file
  /\ CapLocalsUnchanged

\* node upload-captions.js [--dry-run], up to the head of the loop (or to
\* the exit): the credentials check, the log header, the two loads, the
\* matching
CapStart(dry, credentials) ==
  /\ capPc = "idle"
  /\ capDryRun' = dry
  /\ IF ~credentials
       THEN CapExit(logFile)
     ELSE IF ~disk.exists \/ ~disk.parses
       THEN CapExit(InitialiseLog(dry, logFile))
     ELSE IF ~captionDir.exists
       THEN CapExit(InitialiseLog(dry, logFile))
     ELSE LET res == loadMigrationResults(disk)
              srt == loadSrtFiles(captionDir)
              m   == matchCaptions(srt, res)
          IN  /\ logFile' = InitialiseLog(dry, logFile)
              /\ migrationResults' = res
              /\ srtFiles' = srt
              /\ matched' = m.matched
              /\ unmatched' = m.unmatched
              /\ capPc' = IF Len(m.matched) = 0 THEN "done" ELSE "loop"
              /\ UNCHANGED << ci, capSuccessCount, capFailCount >>
  /\ UNCHANGED << captionDir, capSleeps, capCalls, logFile0, engineVars,
                  normalizerVars, concurrentVars >>

\* if (DRY_RUN) { successCount++; continue; }
CapDryRunItem ==
  /\ capPc = "loop"
  /\ ci < Len(matched)
  /\ capDryRun
  /\ capSuccessCount' = capSuccessCount + 1
  /\ ci' = ci + 1
  /\ UNCHANGED << capPc, capDryRun, captionDir, logFile, migrationResults,
                  srtFiles, matched, unmatched, capFailCount, capSleeps,
                  capCalls, logFile0, engineVars, normalizerVars,
                  concurrentVars >>

\* uploadCaption reads the file and sends the request
CapUpload ==
  /\ capPc = "loop"
  /\ ci < Len(matched)
  /\ ~capDryRun
  /\ capPc' = "inflight"
  /\ capCalls' = Append(capCalls, [ srtFile |-> matched[ci + 1].srtFile,
                                    uid     |-> matched[ci + 1].cloudflareUid,
                                    sent    |-> TRUE ])
  /\ UNCHANGED << capDryRun, captionDir, logFile, migrationResults, srtFiles,
                  matched, unmatched, ci, capSuccessCount, capFailCount,
                  capSleeps, logFile0, engineVars, normalizerVars,
                  concurrentVars >>

\* the loop body that also saves the loaded entries as the ledger
CapOutcome_SavesLoaded(response) ==
  /\ logFile' = log(logFile, OutcomeLines(matched[ci + 1], response))
  /\ capSuccessCount' =
       IF Succeeded(response) THEN capSuccessCount + 1 ELSE capSuccessCount
  /\ capFailCount' =
       IF Succeeded(response) THEN capFailCount ELSE capFailCount + 1
  /\ IF ci < Len(matched) - 1
       THEN capPc' = "sleep" /\ ci' = ci
       ELSE capPc' = "loop" /\ ci' = ci + 1
  /\ disk' = saveMigrationResults(migrationResults)
  /\ UNCHANGED << capDryRun, captionDir, migrationResults, srtFiles, matched,
                  unmatched, capSleeps, logFile0, normalizerVars,
                  concurrentVars >>
  /\ UNCHANGED << manifest, pc, runs, DRY_RUN, FILTER_PROJECT, videos,
                  previousResults, alreadyMigrated, results, i, successCount,
                  skipCount, failCount, summary, inFlight, sleeps, submitted,
                  disk0, durable, retried >>

\* the rest of the loop body once uploadCaption has answered or thrown:
\* the log lines, the counters, the rate-limit test
CapOutcome(response) ==
  /\ logFile' = log(logFile, OutcomeLines(matched[ci + 1], response))
  /\ capSuccessCount' =
       IF Succeeded(response) THEN capSuccessCount + 1 ELSE capSuccessCount
  /\ capFailCount' =
       IF Succeeded(response) THEN capFailCount ELSE capFailCount + 1
  /\ IF ci < Len(matched) - 1
       THEN capPc' = "sleep" /\ ci' = ci
       ELSE capPc' = "loop" /\ ci' = ci + 1
  /\ UNCHANGED << capDryRun, captionDir, migrationResults, srtFiles, matched,
                  unmatched, capSleeps, logFile0, engineVars, normalizerVars,
                  concurrentVars >>

\* uploadCaption throws before it sends anything: the file cannot be read
CapReadFault ==
  /\ capPc = "loop"
  /\ ci < Len(matched)
  /\ ~capDryRun
  /\ capCalls' = Append(capCalls, [ srtFile |-> matched[ci + 1].srtFile,
                                    uid     |-> matched[ci + 1].cloudflareUid,
                                    sent    |-> FALSE ])
  /\ CapOutcome(ReadFault)

\* await uploadCaption returns or throws
CapResolve(response) ==
  /\ capPc = "inflight"
  /\ UNCHANGED capCalls
  /\ CapOutcome(response)

\* await sleep(DELAY_MS), i++
CapSleepDone ==
  /\ capPc = "sleep"
  /\ capSleeps' = capSleeps + 1
  /\ ci' = ci + 1
  /\ capPc' = "loop"
  /\ UNCHANGED << capDryRun, captionDir, logFile, migrationResults, srtFiles,
                  matched, unmatched, capSuccessCount, capFailCount, capCalls,
                  logFile0, engineVars, normalizerVars,
                  concurrentVars >>

\* the summary after the loop; the log gets it unless DRY_RUN
CapSummary ==
  /\ capPc = "loop"
  /\ ~(ci < Len(matched))
  /\ logFile' = IF capDryRun THEN logFile
                ELSE log(logFile, SummaryLines(capSuccessCount, capFailCount,
                                               unmatched))
  /\ capPc' = "done"
  /\ UNCHANGED << capDryRun, captionDir, migrationResults, srtFiles, matched,
                  unmatched, ci, capSuccessCount, capFailCount, capSleeps,
                  capCalls, logFile0, engineVars, normalizerVars,
                  concurrentVars >>

CapNext ==
  \/ \E dry \in BOOLEAN, credentials \in BOOLEAN : CapStart(dry, credentials)
  \/ CapDryRunItem
  \/ CapUpload
  \/ CapReadFault
  \/ \E response \in CaptionResponses : CapResolve(response)
  \/ CapSleepDone
  \/ CapSummary

CapSpec == CapInit /\ [][CapNext]_vars

(***************************************************************************)
(* Properties of the caption tool, checked under CapSpec.                  *)
(***************************************************************************)

\* matchCaptions has returned
Matched == capPc \in { "loop", "inflight", "sleep", "done" }

\* some loaded entry has the normalized name of file f
HasMatch(f) ==
  \E k \in 1..Len(migrationResults) :
    normalize(migrationResults[k].name) = normalize(f)

\* the first loaded entry, in ledger order, with the normalized name of f
FirstMatch(f) ==
  migrationResults[CHOOSE k \in 1..Len(migrationResults) :
    /\ normalize(migrationResults[k].name) = normalize(f)
    /\ \A j \in 1..(k - 1) :
         normalize(migrationResults[j].name) # normalize(f)]

\* C11: the matcher puts every local file in exactly one of matched and
\* unmatched, matched exactly when some successful ledger entry has the
\* file's normalized name, keeps the order of the local files in both
\* lists, and pairs a matched file with the first such entry of the ledger.
MatcherResult ==
  Matched =>
    /\ [k \in 1..Len(matched) |-> matched[k].srtFile]
         = SelectSeq(srtFiles, HasMatch)
    /\ unmatched = SelectSeq(srtFiles, LAMBDA f : ~HasMatch(f))
    /\ \A k \in 1..Len(matched) :
         /\ matched[k].cloudflareUid = FirstMatch(matched[k].srtFile).cloudflareUid
         /\ matched[k].spotlightrId = FirstMatch(matched[k].srtFile).spotlightrId
         /\ matched[k].videoName = FirstMatch(matched[k].srtFile).name

\* a matched file and an unmatched file, the matched one paired with the
\* first of two entries of the same normalized name and different videos
MatcherResultWitness ==
  /\ Matched
  /\ Len(matched) >= 1
  /\ Len(unmatched) >= 1
  /\ \E j, k \in 1..Len(migrationResults) :
       /\ j < k
       /\ normalize(migrationResults[j].name) = normalize(matched[1].srtFile)
       /\ normalize(migrationResults[k].name) = normalize(matched[1].srtFile)
       /\ migrationResults[j].cloudflareUid # migrationResults[k].cloudflareUid
       /\ matched[1].cloudflareUid = migrationResults[j].cloudflareUid

\* C12: matching is one-to-one: no two matched pairs refer to the same
\* ledger entry, and in one caption run no remote id receives more than one
\* caption upload.
MatchingOneToOne ==
  /\ \A j, k \in 1..Len(matched) :
       j # k => matched[j].cloudflareUid # matched[k].cloudflareUid
  /\ \A j, k \in 1..Len(capCalls) :
       j # k => capCalls[j].uid # capCalls[k].uid

\* C14: a dry run of the caption tool never calls uploadCaption and leaves
\* caption-upload.log as it was: not created, not truncated, not appended to.
CaptionDryRunPurity ==
  (capDryRun /\ capPc # "idle") =>
    /\ capCalls = << >>
    /\ logFile = logFile0

\* a dry run that went through two matched pairs and printed its summary,
\* with a log of an earlier run in place
CaptionDryRunPurityWitness ==
  /\ capDryRun
  /\ capPc = "done"
  /\ Len(matched) = 2
  /\ ci = 2
  /\ capSuccessCount = 2
  /\ logFile0 = OldLog

\* the outcome lines of the log, in order
OutcomeLinesOf(file) ==
  SelectSeq(file.lines,
            LAMBDA l : l.prefix \in { "[OK] ", "[FAIL] ", "[ERROR] " })

\* the calls of uploadCaption whose outcome the loop has seen
ResolvedCalls ==
  IF capPc = "inflight" THEN Len(capCalls) - 1 ELSE Len(capCalls)

\* C15: in a run that is not a dry run the loop never stops on one pair:
\* the calls of uploadCaption are the matched pairs in match order, one
\* call each, all of them once the run is done; and every call whose
\* outcome is known (success, error response, thrown fault, unreadable
\* file) has its own outcome line in the log, in call order, before the
\* next call is made.
CaptionLoopNeverAborts ==
  ~capDryRun =>
    /\ capPc = "fatal" => capCalls = << >>
    /\ Len(capCalls) = (IF capPc \in { "inflight", "sleep" } THEN ci + 1 ELSE ci)
    /\ Len(capCalls) <= Len(matched)
    /\ (capPc = "done" /\ Matched) => Len(capCalls) = Len(matched)
    /\ \A k \in 1..Len(capCalls) :
         /\ capCalls[k].srtFile = matched[k].srtFile
         /\ capCalls[k].uid = matched[k].cloudflareUid
    /\ Len(OutcomeLinesOf(logFile)) = ResolvedCalls
    /\ \A k \in 1..ResolvedCalls :
         /\ OutcomeLinesOf(logFile)[k].name = capCalls[k].srtFile
         /\ OutcomeLinesOf(logFile)[k].uid = capCalls[k].uid
         /\ ~capCalls[k].sent => OutcomeLinesOf(logFile)[k].prefix = "[ERROR] "
    /\ capSuccessCount =
         Len(SelectSeq(logFile.lines, LAMBDA l : l.prefix = "[OK] "))
    /\ capSuccessCount + capFailCount = ResolvedCalls

\* a finished run of two pairs: the file of the first could not be read,
\* the upload of the second succeeded
CaptionLoopNeverAbortsWitness ==
  /\ ~capDryRun
  /\ capPc = "done"
  /\ Len(capCalls) = 2
  /\ ~capCalls[1].sent
  /\ capCalls[2].sent
  /\ capFailCount = 1
  /\ capSuccessCount = 1

\* C16: no step of the caption tool changes migration-results.json: after
\* any caption run, dry or not and whatever the outcomes of the uploads,
\* the file is what it was before the run.
CaptionLeavesLedger == [][disk' = disk]_vars

\* a finished run that is not a dry run, with one upload succeeded and one
\* failed, beside a ledger that holds a failed entry too
CaptionLeavesLedgerWitness ==
  /\ capPc = "done"
  /\ ~capDryRun
  /\ capSuccessCount >= 1
  /\ capFailCount >= 1
  /\ \E k \in 1..Len(disk.entries) : ~disk.entries[k].success

(***************************************************************************)
(* Properties of migrate.js checked under Spec, continued.                 *)
(***************************************************************************)

\* the last record of the list was uploaded, not skipped
LastSubmitted == videos[Len(videos)].spotlightrId \notin alreadyMigrated

\* C19: in a run that is not a dry run the delay is taken after every
\* uploaded record but the last of the list: when an upload is sent, and
\* while its delay is pending, every earlier upload of the run was followed
\* by a completed delay; a delay is never pending after the last record;
\* and at the end the delays are the uploads, less the last record's.
RateLimitDelay ==
  (~DRY_RUN /\ (InRun \/ Finished)) =>
    /\ pc = "inflight" => sleeps = Len(submitted) - 1
    /\ pc = "sleep" => (sleeps = Len(submitted) - 1 /\ i < Len(videos) - 1)
    /\ (pc = "loop" /\ i < Len(videos)) => sleeps = Len(submitted)
    /\ ((pc = "loop" /\ i = Len(videos)) \/ Finished) =>
         sleeps = Len(submitted) - (IF LastSubmitted THEN 1 ELSE 0)

\* a finished run that uploaded both records of its list, with one delay
RateLimitDelayWitness ==
  /\ Finished
  /\ ~DRY_RUN
  /\ Len(videos) = 2
  /\ Len(submitted) = 2
  /\ sleeps = 1

\* C17: a ledger file that cannot be parsed is refused at load with an
\* error, by migrate.js as by the caption tool: no run of migrate.js goes
\* past the load of an unparseable migration-results.json.
CorruptLedgerRejected ==
  (InRun \/ pc = "done") => (disk0.exists => disk0.parses)

(***************************************************************************)
(* Properties of the caption tool checked under CapSpec, continued.        *)
(***************************************************************************)

\* C18: a fatal error stops the process before any work: when the caption
\* tool exits with status 1 beside a ledger it could load (so for want of
\* a credential, or of the ./caption directory), it has made no remote
\* call and has written neither the ledger nor caption-upload.log.
FatalBeforeWork ==
  (capPc = "fatal" /\ disk.exists /\ disk.parses) =>
    /\ capCalls = << >>
    /\ disk = disk0
    /\ logFile = logFile0

(***************************************************************************)
(* Two processes of migrate.js started in the same directory, neither a   *)
(* dry run nor filtered.  A process shares with the other nothing but the *)
(* results file; main opens it without a lock, so a process may start and *)
(* save while the other is in its loop.  The two processes are alike: the *)
(* one started first is called process 1.                                  *)
(***************************************************************************)

\* process starts and uploads in one behaviour
MaxStarts == 3

MaxUploads == 4

\* manifests of available videos with different ids
ConcManifests ==
  { m \in Manifests :
      /\ \A k \in 1..Len(m) : Migratable(m[k], Null)
      /\ \A j, k \in 1..Len(m) : j # k => m[j].id # m[k].id }

ConcInit ==
  /\ manifest \in ConcManifests
  /\ disk \in { f \in InitialFiles(manifest) : f.exists => ~f.entries[1].success }
  /\ disk0 = disk
  /\ durable = loadPreviousResults(disk)
  /\ MigrateNotStarted
  /\ NormalizerIdle
  /\ CaptionIdle
  /\ proc = [p \in Procs |-> NoProcess]
  /\ starts = 0
  /\ uploads = 0
  /\ diskLen = FileLen(disk)
  /\ lost = {}
  /\ again = {}

\* the ids with a Success entry in ledger a and none in ledger b
SuccessDropped(a, b) ==
  { a[k].spotlightrId : k \in { j \in 1..Len(a) : a[j].success } }
    \ { b[k].spotlightrId : k \in { j \in 1..Len(b) : b[j].success } }

\* a process starts: main to the head of its loop
CStart(p) ==
  /\ proc[p].pc \in { "idle", "done" }
  /\ \A q \in Procs : q < p => proc[q].pc # "idle"
  /\ starts < MaxStarts
  /\ starts' = starts + 1
  /\ LET vs     == extractMigratableVideos(manifest, Null)
         loaded == loadPreviousResults(disk)
     IN  proc' = [proc EXCEPT ![p] =
           [ pc              |-> IF Len(vs) = 0 THEN "done" ELSE "loop",
             run             |-> starts + 1,
             videos          |-> vs,
             alreadyMigrated |-> AlreadyMigratedSet(loaded),
             results         |-> loaded,
             i               |-> 0,
             lostAtLoad      |-> lost \ AlreadyMigratedSet(loaded) ]]
  /\ UNCHANGED << uploads, diskLen, lost, again, engineVars,
                  normalizerVars, captionVars >>

\* the skip branch of the loop
CSkip(p) ==
  /\ proc[p].pc = "loop"
  /\ proc[p].i < Len(proc[p].videos)
  /\ proc[p].videos[proc[p].i + 1].spotlightrId \in proc[p].alreadyMigrated
  /\ proc' = [proc EXCEPT ![p].i = @ + 1]
  /\ UNCHANGED << starts, uploads, diskLen, lost, again, engineVars,
                  normalizerVars, captionVars >>

\* await uploadToCloudflare(video): the request is sent
CUpload(p) ==
  /\ proc[p].pc = "loop"
  /\ proc[p].i < Len(proc[p].videos)
  /\ proc[p].videos[proc[p].i + 1].spotlightrId \notin proc[p].alreadyMigrated
  /\ uploads < MaxUploads
  /\ uploads' = uploads + 1
  /\ proc' = [proc EXCEPT ![p].pc = "inflight"]
  /\ again' = again \cup
       ({ proc[p].videos[proc[p].i + 1].spotlightrId } \cap proc[p].lostAtLoad)
  /\ UNCHANGED << starts, diskLen, lost, engineVars, normalizerVars,
                  captionVars >>

\* the same step where the process reads the file again and adds its entry
\* to what the file holds
CResolve_Merging(p, response) ==
  /\ proc[p].pc = "inflight"
  /\ LET entry == EntryFor(proc[p].videos[proc[p].i + 1], response, proc[p].run)
         saved == Append(loadPreviousResults(disk), entry)
     IN  /\ proc' = [proc EXCEPT ![p].results = saved,
                                 ![p].pc = "saving"]
         /\ disk' = Torn
         /\ diskLen' = 0
         /\ lost' = lost \cup SuccessDropped(loadPreviousResults(disk), saved)
  /\ UNCHANGED << starts, uploads, again, manifest, pc, runs, DRY_RUN, FILTER_PROJECT,
                  videos, previousResults, alreadyMigrated, results, i,
                  successCount, skipCount, failCount, summary, inFlight,
                  sleeps, submitted, disk0, durable, retried, normalizerVars,
                  captionVars >>

\* the await is over (answer or thrown fault): results.push, then
\* saveMigrationResults(results) as far as writeFileSync having truncated
\* the file; until the text is written the file does not parse
CResolve(p, response) ==
  /\ proc[p].pc = "inflight"
  /\ LET entry == EntryFor(proc[p].videos[proc[p].i + 1], response, proc[p].run)
         saved == Append(proc[p].results, entry)
     IN  /\ proc' = [proc EXCEPT ![p].results = saved,
                                 ![p].pc = "saving"]
         /\ disk' = Torn
         /\ diskLen' = 0
         /\ lost' = lost \cup SuccessDropped(loadPreviousResults(disk), saved)
  /\ UNCHANGED << starts, uploads, again, manifest, pc, runs, DRY_RUN, FILTER_PROJECT,
                  videos, previousResults, alreadyMigrated, results, i,
                  successCount, skipCount, failCount, summary, inFlight,
                  sleeps, submitted, disk0, durable, retried, normalizerVars,
                  captionVars >>

\* the file after a text of the given entries is written from its start
\* over a text of length len: the new text alone, or the new text followed
\* by the rest of a longer old one, which is no JSON
WrittenOver(len, entries) ==
  IF TextLen(entries) >= len THEN saveMigrationResults(entries) ELSE Torn

\* writeFileSync has written the text, from the start of the file and over
\* what the other process wrote since this one truncated it; then the test
\* of the rate-limit delay: await sleep with i as it is, or on to the next
\* video
CSaveDone(p) ==
  /\ proc[p].pc = "saving"
  /\ disk' = WrittenOver(diskLen, proc[p].results)
  /\ diskLen' = IF TextLen(proc[p].results) >= diskLen
                  THEN TextLen(proc[p].results) ELSE diskLen
  /\ lost' = lost \cup
       SuccessDropped(loadPreviousResults(disk),
                      loadPreviousResults(WrittenOver(diskLen, proc[p].results)))
  /\ proc' = IF proc[p].i < Len(proc[p].videos) - 1
               THEN [proc EXCEPT ![p].pc = "sleep"]
               ELSE [proc EXCEPT ![p].pc = "loop", ![p].i = @ + 1]
  /\ UNCHANGED << starts, uploads, again, manifest, pc, runs, DRY_RUN, FILTER_PROJECT,
                  videos, previousResults, alreadyMigrated, results, i,
                  successCount, skipCount, failCount, summary, inFlight,
                  sleeps, submitted, disk0, durable, retried, normalizerVars,
                  captionVars >>

\* await sleep(Number(DELAY_MS)) is over; i++
CSleepDone(p) ==
  /\ proc[p].pc = "sleep"
  /\ proc' = [proc EXCEPT ![p].pc = "loop", ![p].i = @ + 1]
  /\ UNCHANGED << starts, uploads, diskLen, lost, again, engineVars,
                  normalizerVars, captionVars >>

\* the loop is over, the process ends
CSummary(p) ==
  /\ proc[p].pc = "loop"
  /\ ~(proc[p].i < Len(proc[p].videos))
  /\ proc' = [proc EXCEPT ![p].pc = "done"]
  /\ UNCHANGED << starts, uploads, diskLen, lost, again, engineVars,
                  normalizerVars, captionVars >>

ConcNext ==
  \E p \in Procs :
    \/ CStart(p)
    \/ CSkip(p)
    \/ CUpload(p)
    \/ proc[p].pc = "inflight" /\
         \E response \in Responses(proc[p].videos[proc[p].i + 1]) :
           CResolve(p, response)
    \/ CSaveDone(p)
    \/ CSleepDone(p)
    \/ CSummary(p)

ConcSpec == ConcInit /\ [][ConcNext]_vars

\* C20: nothing keeps two runs of migrate.js apart: a process adds its new
\* entry to the list it loaded at start, never to what the file holds now,
\* and a save writes that list whatever the file holds, so what the other
\* process saved since this one loaded is dropped by it: after a save the
\* file loads as the saving process's list, or as nothing when the text
\* went over a longer one.
LastWriterWins ==
  [][\A p \in Procs :
       /\ (proc[p].pc = "inflight" /\ proc'[p].pc = "saving") =>
            /\ Len(proc'[p].results) = Len(proc[p].results) + 1
            /\ IsPrefix(proc[p].results, proc'[p].results)
       /\ (proc[p].pc = "saving" /\ proc'[p].pc # "saving") =>
            /\ proc'[p].results = proc[p].results
            /\ disk' \in { saveMigrationResults(proc[p].results), Torn }
            /\ disk' = Torn => diskLen > TextLen(proc[p].results)
            /\ SuccessDropped(loadPreviousResults(disk), loadPreviousResults(disk'))
                 \subseteq lost']_vars

\* the lost update and what it leads to: both processes ran at once, the
\* Success entry of an id that one had saved was dropped by a save of the
\* other, and a run started later has uploaded that id again
LastWriterWinsWitness ==
  /\ again # {}
  /\ \A id \in again : id \in lost
  /\ starts >= 3

(***************************************************************************)
(* Properties of migrate.js checked under Spec, continued.                 *)
(***************************************************************************)

\* C21: within a run that started from a ledger that loads (a results file
\* that parses, or none), every change of the results file leaves the ledger
\* that loaded before it with exactly one entry added at the end: the
\* entries loaded at start stay, unchanged and in place, and the new entries
\* follow them in the order of the videos.
LedgerMonotone ==
  [][(disk' # disk /\ (disk0.exists => disk0.parses)) =>
       /\ disk'.exists
       /\ disk'.parses
       /\ Len(disk'.entries) = Len(Persisted) + 1
       /\ IsPrefix(Persisted, disk'.entries)
       /\ IsPrefix(LoadedAtStart, disk'.entries)
       /\ disk'.entries[Len(disk'.entries)].spotlightrId
            = videos[i + 1].spotlightrId]_vars

=============================================================================
